---- MODULE Spec2Model ----
(***************************************************************************)
(* Model of the add_fields transform (src/transforms/add_fields.rs).       *)
(*                                                                         *)
(* A configuration document (AddFieldsConfig.fields) is flattened once by  *)
(* AddFields::new into an ordered entry list (AddFields.fields), and       *)
(* AddFields::transform applies that list to one event per call.           *)
(*                                                                         *)
(* Representation                                                          *)
(*   TomlValue        a record tagged by `type`; an Array holds `vals`, a  *)
(*                    Table holds `map`, its members as declared in the    *)
(*                    document, a sequence of <<key, value>> pairs         *)
(*   string leaf      a sequence of tokens: "{{", "}}" and chunks of text  *)
(*   Value            a record tagged by `t` (Bytes, Integer, Float,       *)
(*                    Boolean, Timestamp); a float is held in tenths       *)
(*   Event            a function from field names to Values (a flat log)   *)
(*   entry list       a sequence of [key, payload] records, the IndexMap   *)
(***************************************************************************)
EXTENDS Integers, Sequences, FiniteSets, TLC

VARIABLES
    config,     \* AddFieldsConfig.fields: the declared document
    stage,      \* "none" before AddFieldsConfig::build, "ready" after it
    fields,     \* AddFields.fields: the entry list of the stage
    built,      \* the entry list as AddFields::new returned it
    input,      \* the event passed to the latest transform call
    result,     \* what the latest transform call returned (an Option)
    nIn,        \* events passed to transform so far
    nOut,       \* events returned by transform so far
    memo        \* for every event passed so far, the event returned for it

vars == <<config, stage, fields, built, input, result, nIn, nOut, memo>>

----------------------------------------------------------------------------
(* Bounds of the model.                                                    *)

MaxTop == 2      \* top-level members of a generated document
MaxCalls == 2    \* transform calls on one stage

----------------------------------------------------------------------------
(* toml::value::Value, as add_fields.rs matches on it.                     *)

TString(s)   == [type |-> "String", s |-> s]
TInteger(i)  == [type |-> "Integer", i |-> i]
TFloat(f)    == [type |-> "Float", f |-> f]
TBoolean(b)  == [type |-> "Boolean", b |-> b]
TDatetime(d) == [type |-> "Datetime", dt |-> d]
TArray(v)    == [type |-> "Array", vals |-> v]
TTable(m)    == [type |-> "Table", map |-> m]

(* event::Value, the typed values an event holds.                          *)

VBytes(s)     == [t |-> "Bytes", s |-> s]
VInteger(i)   == [t |-> "Integer", i |-> i]
VFloat(f)     == [t |-> "Float", f |-> f]
VBoolean(b)   == [t |-> "Boolean", b |-> b]
VTimestamp(d) == [t |-> "Timestamp", ts |-> d]

(* TemplateOrValue, lines 19-35.                                           *)

PTemplate(tpl) == [kind |-> "Template", tpl |-> tpl]
PValue(val)    == [kind |-> "Value", val |-> val]

----------------------------------------------------------------------------
(* Formatting of integers, `{}` of a usize or an i64 (line 130).           *)

Digits == <<"0", "1", "2", "3", "4", "5", "6", "7", "8", "9">>

RECURSIVE NatToString(_)
NatToString(n) ==
    IF n < 10 THEN Digits[n + 1]
    ELSE NatToString(n \div 10) \o Digits[(n % 10) + 1]

IntToString(i) == IF i < 0 THEN "-" \o NatToString(-i) ELSE NatToString(i)

(* A float is held in tenths: 45 is 4.5.                                   *)
FloatToString(f) ==
    IF f < 0 THEN "-" \o NatToString((-f) \div 10) \o "." \o Digits[((-f) % 10) + 1]
    ELSE NatToString(f \div 10) \o "." \o Digits[(f % 10) + 1]

----------------------------------------------------------------------------
(* The event record: LogEvent of crate::event, a flat map from field name  *)
(* to Value, with point lookup and point insertion.                        *)

EmptyEvent == <<>>

EventInsert(event, key, value) ==
    [k \in (DOMAIN event) \cup {key} |-> IF k = key THEN value ELSE event[k]]

EventHas(event, key) == key \in DOMAIN event

(* Value::to_string_lossy, the text a placeholder is replaced by.          *)
to_string_lossy(v) ==
    CASE v.t = "Bytes"     -> v.s
      [] v.t = "Integer"   -> IntToString(v.i)
      [] v.t = "Float"     -> FloatToString(v.f)
      [] v.t = "Boolean"   -> (IF v.b THEN "true" ELSE "false")
      [] v.t = "Timestamp" -> v.ts

----------------------------------------------------------------------------
(* The template engine: crate::template::Template.                         *)
(*   compile(text) -> Template | CompileError                              *)
(*   render(Template, &Event) -> String | RenderError                      *)

Open == "{{"
Close == "}}"

(* A placeholder {{name}} starts at token i of src.                        *)
IsPlaceholderAt(src, i) ==
    /\ i + 2 <= Len(src)
    /\ src[i] = Open
    /\ src[i + 1] \notin {Open, Close}
    /\ src[i + 2] = Close

(* Token i of src is a brace that belongs to no placeholder.               *)
IsStrayBrace(src, i) ==
    /\ src[i] \in {Open, Close}
    /\ ~ (src[i] = Open /\ IsPlaceholderAt(src, i))
    /\ ~ (src[i] = Close /\ i > 2 /\ IsPlaceholderAt(src, i - 2))

(* The text has malformed template syntax: compile gives CompileError.     *)
Malformed(src) == \E i \in 1..Len(src) : IsStrayBrace(src, i)

(* Template::from(String), line 103: infallible, it keeps the text.        *)
TemplateFrom(s) == [src |-> s]

RenderOk(s) == [ok |-> TRUE, s |-> s]
RenderErr == [ok |-> FALSE, s |-> ""]

RECURSIVE RenderFrom(_, _, _)
RenderFrom(src, i, event) ==
    IF i > Len(src) THEN RenderOk("")
    ELSE IF IsPlaceholderAt(src, i)
    THEN LET rest == RenderFrom(src, i + 3, event)
         IN IF EventHas(event, src[i + 1]) /\ rest.ok
            THEN RenderOk(to_string_lossy(event[src[i + 1]]) \o rest.s)
            ELSE RenderErr
    ELSE LET rest == RenderFrom(src, i + 1, event)
         IN IF rest.ok THEN RenderOk(src[i] \o rest.s) ELSE RenderErr

(* Template::render_string(&event), line 80.                               *)
render_string(tpl, event) == RenderFrom(tpl.src, 1, event)

----------------------------------------------------------------------------
(* IndexMap<Atom, TemplateOrValue>, the entry list.                        *)

Entry(key, payload) == [key |-> key, payload |-> payload]

Keys(m) == {m[i].key : i \in 1..Len(m)}

IndexOf(m, key) == CHOOSE i \in 1..Len(m) : m[i].key = key

(* A variant of IndexMapInsert: an existing key is removed and put back at *)
(* the end, the order a remove-then-insert gives.                          *)
IndexMapInsert_MoveToEnd(m, key, payload) ==
    Append(SelectSeq(m, LAMBDA e : e.key # key), Entry(key, payload))

(* IndexMap::insert: an existing key keeps its place and takes the new     *)
(* payload, a new key goes to the end.                                     *)
IndexMapInsert(m, key, payload) ==
    IF key \in Keys(m)
    THEN [m EXCEPT ![IndexOf(m, key)] = Entry(key, payload)]
    ELSE Append(m, Entry(key, payload))

----------------------------------------------------------------------------
(* toml::value::Table is a BTreeMap<String, Value>: whatever order the     *)
(* members were declared in, `for (table_key, value) in map` (line 137)    *)
(* visits them in ascending order of the key (String's Ord, bytewise).     *)
(* The test at lines 198-201 builds the table from a HashMap, which has no *)
(* declaration order either.                                               *)

(* The member keys of the model, in ascending order of String's Ord.       *)
KeyOrder == <<"a", "b", "c", "key", "z">>

KeyRank(k) == CHOOSE i \in 1..Len(KeyOrder) : KeyOrder[i] = k

StringLess(a, b) == KeyRank(a) < KeyRank(b)

(* The member of `map` (a sequence of <<key, value>>) with the least key.  *)
LeastMember(map) ==
    CHOOSE i \in 1..Len(map) :
        \A j \in 1..Len(map) : j # i => StringLess(map[i][1], map[j][1])

RemoveAt(seq, i) == SubSeq(seq, 1, i - 1) \o SubSeq(seq, i + 1, Len(seq))

RECURSIVE SortByKey(_)
SortByKey(map) ==
    IF Len(map) = 0 THEN <<>>
    ELSE LET i == LeastMember(map)
         IN <<map[i]>> \o SortByKey(RemoveAt(map, i))

(* The members of a nested table in the order line 137 visits them.        *)
TableIter(map) == SortByKey(map)

(* The members of the top-level IndexMap<String, TomlValue> in the order   *)
(* line 68 visits them: the order of insertion, which is declaration order.*)
FieldsIter(doc) == doc

----------------------------------------------------------------------------
(* flatten_field, lines 100-145.                                           *)

(* chrono's dt.parse::<DateTime<Utc>>() (line 120) accepts a date-time     *)
(* with an offset; a local date-time, date or time has none.               *)
OffsetDatetimes == {"1979-05-27T07:32:00Z"}

ParsesAsUtc(dt) == dt \in OffsetDatetimes

StringLeaf(s)  == PTemplate(TemplateFrom(s))          \* lines 102-105
(* A variant of IntegerLeaf: the integer is stringified and compiled.      *)
IntegerLeaf_AsTemplate(i) == PTemplate(TemplateFrom(<<IntToString(i)>>))

IntegerLeaf(i) == PValue(VInteger(i))                 \* lines 106-109
FloatLeaf(f)   == PValue(VFloat(f))                   \* lines 110-113
BooleanLeaf(b) == PValue(VBoolean(b))                 \* lines 114-117
DatetimeLeaf(dt) ==                                   \* lines 118-127
    IF ParsesAsUtc(dt) THEN PValue(VTimestamp(dt)) ELSE PValue(VBytes(dt))

(* A variant of ArrayKey: the elements are numbered from one.              *)
ArrayKey_OneBased(key, i) == key \o "[" \o NatToString(i + 1) \o "]"

ArrayKey(key, i) == key \o "[" \o NatToString(i) \o "]"    \* line 130
TableKey(key, table_key) == key \o "." \o table_key        \* line 138

RECURSIVE flatten_field(_, _, _)
RECURSIVE flatten_array(_, _, _, _)
RECURSIVE flatten_table(_, _, _, _)

flatten_field(key, value, new_fields) ==
    CASE value.type = "String"   -> IndexMapInsert(new_fields, key, StringLeaf(value.s))
      [] value.type = "Integer"  -> IndexMapInsert(new_fields, key, IntegerLeaf(value.i))
      [] value.type = "Float"    -> IndexMapInsert(new_fields, key, FloatLeaf(value.f))
      [] value.type = "Boolean"  -> IndexMapInsert(new_fields, key, BooleanLeaf(value.b))
      [] value.type = "Datetime" -> IndexMapInsert(new_fields, key, DatetimeLeaf(value.dt))
      [] value.type = "Array"    -> flatten_array(key, value.vals, 1, new_fields)
      [] value.type = "Table"    -> flatten_table(key, TableIter(value.map), 1, new_fields)

(* The loop of lines 129-132 from element n on (n counts from 1, the index *)
(* that enumerate() gives is n - 1).                                       *)
flatten_array(key, vals, n, new_fields) ==
    IF n > Len(vals) THEN new_fields
    ELSE flatten_array(key, vals, n + 1,
                       flatten_field(ArrayKey(key, n - 1), vals[n], new_fields))

(* The loop of lines 137-140 from member n on.                             *)
flatten_table(key, members, n, new_fields) ==
    IF n > Len(members) THEN new_fields
    ELSE flatten_table(key, members, n + 1,
                       flatten_field(TableKey(key, members[n][1]), members[n][2],
                                     new_fields))

(* AddFields::new, lines 65-73.                                            *)
RECURSIVE NewFrom(_, _, _)
NewFrom(members, n, new_fields) ==
    IF n > Len(members) THEN new_fields
    ELSE NewFrom(members, n + 1,
                 flatten_field(members[n][1], members[n][2], new_fields))

AddFieldsNew(doc) == NewFrom(FieldsIter(doc), 1, <<>>)

(* AddFieldsConfig::build, lines 47-49: always Ok.                         *)
build(doc) == [ok |-> TRUE, fields |-> AddFieldsNew(doc)]

----------------------------------------------------------------------------
(* AddFields::transform, lines 77-97.                                      *)

(* A variant of apply_entry: a failed rendering inserts the empty string.  *)
apply_entry_InsertEmpty(entry, event) ==
    IF entry.payload.kind = "Template"
    THEN LET r == render_string(entry.payload.tpl, event)
         IN EventInsert(event, entry.key, VBytes(r.s))
    ELSE EventInsert(event, entry.key, entry.payload.val)

(* One turn of the loop, lines 79-93.                                      *)
apply_entry(entry, event) ==
    IF entry.payload.kind = "Template"
    THEN LET r == render_string(entry.payload.tpl, event)
         IN IF r.ok THEN EventInsert(event, entry.key, VBytes(r.s))
            ELSE event                                   \* warn!, continue
    ELSE EventInsert(event, entry.key, entry.payload.val)

(* The event after the first n entries of the list.                        *)
RECURSIVE transform_loop(_, _, _)
transform_loop(fs, n, event) ==
    IF n = 0 THEN event
    ELSE apply_entry(fs[n], transform_loop(fs, n - 1, event))

Some(event) == [some |-> TRUE, event |-> event]
None == [some |-> FALSE, event |-> EmptyEvent]

(* A variant of transform: the event is dropped when a template fails.     *)
transform_DropOnFailure(fs, event) ==
    IF \E i \in 1..Len(fs) :
          /\ fs[i].payload.kind = "Template"
          /\ ~ render_string(fs[i].payload.tpl, transform_loop(fs, i - 1, event)).ok
    THEN None
    ELSE Some(transform_loop(fs, Len(fs), event))

(* A variant of transform: every template is rendered against the event as *)
(* it was on entry.                                                        *)
RECURSIVE snapshot_loop(_, _, _, _)
snapshot_loop(fs, n, event, snapshot) ==
    IF n = 0 THEN event
    ELSE LET before == snapshot_loop(fs, n - 1, event, snapshot)
             e == fs[n]
             r == render_string(e.payload.tpl, snapshot)
         IN IF e.payload.kind = "Template"
            THEN IF r.ok THEN EventInsert(before, e.key, VBytes(r.s)) ELSE before
            ELSE EventInsert(before, e.key, e.payload.val)

transform_Snapshot(fs, event) == Some(snapshot_loop(fs, Len(fs), event, event))

(* A variant of transform: the entries are written into a fresh record.    *)
transform_FreshEvent(fs, event) == Some(transform_loop(fs, Len(fs), EmptyEvent))

transform(fs, event) == Some(transform_loop(fs, Len(fs), event))

(* A variant of fields_after_transform: the loop drains the list.          *)
fields_after_transform_Drained(fs) == <<>>

(* self.fields after a call: the loop runs over self.fields.clone()        *)
(* (line 78), the list itself is not touched.                              *)
fields_after_transform(fs) == fs

----------------------------------------------------------------------------
(* The inputs of the model: configuration documents and events.            *)

Lit(text) == TString(<<text>>)                       \* a string with no placeholder
Ref(name) == TString(<<Open, name, Close>>)          \* "{{name}}"

(* The values a member of a generated document may hold.                   *)
GenValues ==
    { Lit("x"),
      TString(<<Open, "a", Close, "-y">>),           \* "{{a}}-y"
      Ref("missing_field"),
      TString(<<Open, "a">>),                        \* "{{a", malformed
      TInteger(4), TBoolean(TRUE),
      TArray(<<TInteger(1), TInteger(2)>>),
      TTable(<<<<"z", Lit("x")>>, <<"b", Ref("a.z")>>>>) }

TopKeys == {"a", "b", "a.b"}

DistinctKeys(doc) ==
    \A i, j \in 1..Len(doc) : i # j => doc[i][1] # doc[j][1]

(* Every document of at most MaxTop members over TopKeys and GenValues.    *)
Generated ==
    UNION { { doc \in [1..n -> TopKeys \X GenValues] : DistinctKeys(doc) }
            : n \in 0..MaxTop }

(* The documents of the tests (lines 155-215) and of the examples.         *)
DocEvent == << <<"some_key", Lit("some_val")>> >>

DocTemplating ==
    << <<"some_key", TString(<<Open, "message", Close, " ", Open, "message", Close>>)>> >>

DocTypes ==
    << <<"float", TFloat(45)>>, <<"int", TInteger(4)>>,
       <<"string", Lit("thisisastring")>>, <<"bool", TBoolean(TRUE)>>,
       <<"array", TArray(<<TInteger(1), TInteger(2), TInteger(3)>>)>>,
       <<"table", TTable(<< <<"key", Lit("value")>> >>)>> >>

DocResilience ==
    << <<"ok", Lit("literal")>>, <<"bad", Ref("missing_field")>>,
       <<"after", Lit("literal2")>> >>

DocVisibility ==
    << <<"a", Lit("x")>>, <<"b", TString(<<Open, "a", Close, "-y">>)>> >>

DocNestedOrder ==
    << <<"t", TTable(<< <<"z", Lit("x")>>, <<"a", Ref("t.z")>> >>)>> >>

DocCollision ==
    << <<"a.b", Lit("first")>>, <<"c", Ref("a.b")>>,
       <<"a", TTable(<< <<"b", TInteger(4)>> >>)>> >>

DocDeep ==
    << <<"a", TTable(<< <<"b", TArray(<<TInteger(0), TInteger(1),
                                        TTable(<< <<"c", Lit("x")>> >>)>>)>> >>)>> >>

DocArray == << <<"a", TArray(<<TInteger(1), TInteger(2), TInteger(3)>>)>> >>

DocTable == << <<"a", TTable(<< <<"b", Lit("c")>> >>)>> >>

DocDatetime ==
    << <<"at", TDatetime("1979-05-27T07:32:00Z")>>, <<"on", TDatetime("1979-05-27")>> >>

DocEmpty ==
    << <<"none", TArray(<<>>)>>, <<"nothing", TTable(<<>>)>>,
       <<"in", TArray(<<TArray(<<>>), TArray(<<Lit("x")>>)>>)>> >>

Scenarios ==
    { DocEvent, DocTemplating, DocTypes, DocResilience, DocVisibility,
      DocNestedOrder, DocCollision, DocDeep, DocArray, DocTable, DocDatetime,
      DocEmpty }

Configs == Generated \cup Scenarios

(* Events: Event::from("augment me") of the tests, and events that hold    *)
(* fields of the documents' paths and fields of none of them.              *)
EvMessage == [k \in {"message"} |-> VBytes("augment me")]

EvOld ==
    [k \in {"message", "a", "a.b", "bad"} |->
        CASE k = "message" -> VBytes("hello world")
          [] k = "a"       -> VBytes("old")
          [] k = "a.b"     -> VInteger(7)
          [] k = "bad"     -> VBoolean(FALSE)]

EvTyped ==
    [k \in {"a.z", "t.z", "b", "missing_field", "host"} |->
        CASE k = "a.z"           -> VBoolean(TRUE)
          [] k = "t.z"           -> VInteger(12)
          [] k = "b"             -> VFloat(15)
          [] k = "missing_field" -> VTimestamp("1979-05-27T07:32:00Z")
          [] k = "host"          -> VBytes("h")]

Events == {EvMessage, EvOld, EvTyped}

----------------------------------------------------------------------------
(* The state machine.                                                      *)

Init ==
    /\ config \in Configs
    /\ stage = "none"
    /\ fields = <<>>
    /\ built = <<>>
    /\ input = EmptyEvent
    /\ result = None
    /\ nIn = 0
    /\ nOut = 0
    /\ memo = {}

(* AddFieldsConfig::build: the stage is constructed from the document.     *)
Build ==
    /\ stage = "none"
    /\ LET r == build(config)
       IN /\ stage' = (IF r.ok THEN "ready" ELSE "failed")
          /\ fields' = r.fields
          /\ built' = r.fields
    /\ UNCHANGED <<config, input, result, nIn, nOut, memo>>

(* AddFields::transform on one event.                                      *)
Transform ==
    /\ stage = "ready"
    /\ nIn < MaxCalls
    /\ \E event \in Events :
          LET r == transform(fields, event)
          IN /\ input' = event
             /\ result' = r
             /\ nIn' = nIn + 1
             /\ nOut' = nOut + (IF r.some THEN 1 ELSE 0)
             /\ memo' = memo \cup {<<event, r>>}
    /\ fields' = fields_after_transform(fields)
    /\ UNCHANGED <<config, stage, built>>

Next == Build \/ Transform

Spec == Init /\ [][Next]_vars

TypeOK ==
    /\ stage \in {"none", "ready", "failed"}
    /\ nIn \in 0..MaxCalls
    /\ nOut \in 0..MaxCalls
    /\ input \in Events \cup {EmptyEvent}

----------------------------------------------------------------------------
(* What the properties below speak of.                                     *)

Called == nIn > 0

Output == result.event

(* Entry i of the list fs is a template whose rendering fails in a call on *)
(* event: it is rendered against the event as the entries before it left it.*)
RenderFails(fs, i, event) ==
    /\ fs[i].payload.kind = "Template"
    /\ ~ render_string(fs[i].payload.tpl, transform_loop(fs, i - 1, event)).ok

SomeRenderFails(fs, event) == \E i \in 1..Len(fs) : RenderFails(fs, i, event)

(* The event holds the same at `key`, present or absent, in e1 and in e2.  *)
SameAt(e1, e2, key) ==
    /\ EventHas(e1, key) <=> EventHas(e2, key)
    /\ EventHas(e1, key) => e1[key] = e2[key]

(* The leaves of a document with their accumulated paths, as a sequence of *)
(* [path, leaf]: in the order of the declaration, or, with visit = TRUE,   *)
(* in the order flatten_field visits them.                                 *)
RECURSIVE LeafSeq(_, _, _)
RECURSIVE MemberLeafSeq(_, _, _, _, _)

LeafSeq(path, value, visit) ==
    CASE value.type = "Array" -> MemberLeafSeq(path, value.vals, 1, FALSE, visit)
      [] value.type = "Table" ->
            MemberLeafSeq(path, IF visit THEN TableIter(value.map) ELSE value.map,
                          1, TRUE, visit)
      [] OTHER -> << [path |-> path, leaf |-> value] >>

MemberLeafSeq(path, items, n, isTable, visit) ==
    IF n > Len(items) THEN <<>>
    ELSE (IF isTable
          THEN LeafSeq(path \o "." \o items[n][1], items[n][2], visit)
          ELSE LeafSeq(path \o "[" \o Digits[n] \o "]", items[n], visit))
         \o MemberLeafSeq(path, items, n + 1, isTable, visit)

RECURSIVE DocLeafSeq(_, _, _)
DocLeafSeq(doc, n, visit) ==
    IF n > Len(doc) THEN <<>>
    ELSE LeafSeq(doc[n][1], doc[n][2], visit) \o DocLeafSeq(doc, n + 1, visit)

DeclaredLeaves(doc) == DocLeafSeq(doc, 1, FALSE)
VisitedLeaves(doc) == DocLeafSeq(doc, 1, TRUE)

PathSeq(leaves) == [i \in 1..Len(leaves) |-> leaves[i].path]
PathSet(leaves) == {leaves[i].path : i \in 1..Len(leaves)}
KeySeq(fs) == [i \in 1..Len(fs) |-> fs[i].key]

(* No two leaves of the document have the same path.                       *)
NoCollision(doc) ==
    LET leaves == DeclaredLeaves(doc)
    IN \A i, j \in 1..Len(leaves) : i # j => leaves[i].path # leaves[j].path

(* The payload is the one the leaf asks for: a template of the leaf's text *)
(* for a string, a literal of the leaf's type and value otherwise.         *)
PayloadOfLeaf(payload, leaf) ==
    CASE leaf.type = "String" ->
            payload.kind = "Template" /\ payload.tpl.src = leaf.s
      [] leaf.type = "Integer" ->
            payload.kind = "Value" /\ payload.val = VInteger(leaf.i)
      [] leaf.type = "Float" ->
            payload.kind = "Value" /\ payload.val = VFloat(leaf.f)
      [] leaf.type = "Boolean" ->
            payload.kind = "Value" /\ payload.val = VBoolean(leaf.b)
      [] leaf.type = "Datetime" ->
            payload.kind = "Value" /\ payload.val.t \in {"Timestamp", "Bytes"}

HasMalformedLeaf(leaves) ==
    \E i \in 1..Len(leaves) :
        leaves[i].leaf.type = "String" /\ Malformed(leaves[i].leaf.s)

----------------------------------------------------------------------------
(* C1: every transform call returns exactly one event, Some(event), also   *)
(* when templates fail to render; over any sequence of calls the number of *)
(* events returned equals the number of events passed in.                  *)
C1_OneEventPerCall ==
    /\ nOut = nIn
    /\ Called => result.some
    /\ \A call \in memo : call[2].some

(* Two calls were made, the latest with a template that failed to render.  *)
C1_Witness ==
    /\ nIn = 2
    /\ nOut = 2
    /\ SomeRenderFails(built, input)
    /\ result.some

(* C2: when a template entry fails to render, the event holds at that      *)
(* entry's path what it held before (nothing is inserted), and every later *)
(* entry is still applied: a later literal is in the output, and so is a   *)
(* later template that renders. The example [ok, bad, after] gives an      *)
(* output with ok and after, and with bad as the input had it.             *)
C2_FailedEntrySkipped ==
    Called =>
        /\ \A i \in 1..Len(built) :
              RenderFails(built, i, input) =>
                 /\ SameAt(Output, input, built[i].key)
                 /\ \A j \in (i + 1)..Len(built) :
                       LET e == built[j]
                           r == render_string(e.payload.tpl,
                                              transform_loop(built, j - 1, input))
                       IN /\ e.payload.kind = "Value" =>
                                /\ EventHas(Output, e.key)
                                /\ Output[e.key] = e.payload.val
                          /\ (e.payload.kind = "Template" /\ r.ok) =>
                                /\ EventHas(Output, e.key)
                                /\ Output[e.key] = VBytes(r.s)
        /\ (config = DocResilience /\ ~ EventHas(input, "missing_field")) =>
              /\ EventHas(Output, "ok") /\ Output["ok"] = VBytes("literal")
              /\ EventHas(Output, "after") /\ Output["after"] = VBytes("literal2")
              /\ SameAt(Output, input, "bad")

(* The example: bad failed on an event without missing_field and without   *)
(* bad; the output has ok and after and no bad.                            *)
C2_Witness ==
    /\ Called
    /\ config = DocResilience
    /\ input = EvMessage
    /\ RenderFails(built, 2, input)
    /\ EventHas(Output, "ok")
    /\ EventHas(Output, "after")
    /\ ~ EventHas(Output, "bad")

(* C3: entries are evaluated in list order and a template is rendered      *)
(* against the event as the earlier entries of the same call left it.      *)
(* With a = "x", b = "{{a}}-y" every event gives a = "x", b = "x-y". In    *)
(* general a template "{{a}}-y" placed after an applied entry a renders    *)
(* the value that entry inserted, and one placed before the entry a        *)
(* renders the a of the incoming event, or fails when there is none.       *)
RefA == <<Open, "a", Close, "-y">>

C3_LaterSeesEarlier ==
    Called =>
        /\ config = DocVisibility =>
              /\ EventHas(Output, "a") /\ Output["a"] = VBytes("x")
              /\ EventHas(Output, "b") /\ Output["b"] = VBytes("x-y")
        /\ \A i, j \in 1..Len(built) :
              ( /\ built[i].key = "a"
                /\ ~ RenderFails(built, i, input)
                /\ built[j].payload.kind = "Template"
                /\ built[j].payload.tpl.src = RefA ) =>
                 /\ i < j =>
                       /\ EventHas(Output, built[j].key)
                       /\ Output[built[j].key] =
                             VBytes(to_string_lossy(Output["a"]) \o "-y")
                 /\ (j < i /\ EventHas(input, "a")) =>
                       /\ EventHas(Output, built[j].key)
                       /\ Output[built[j].key] =
                             VBytes(to_string_lossy(input["a"]) \o "-y")
                 /\ (j < i /\ ~ EventHas(input, "a")) =>
                       SameAt(Output, input, built[j].key)

(* The example on an event that already has a field a with another value.  *)
C3_Witness ==
    /\ Called
    /\ config = DocVisibility
    /\ input = EvOld
    /\ input["a"] = VBytes("old")
    /\ Output["a"] = VBytes("x")
    /\ Output["b"] = VBytes("x-y")

(* C4: a call leaves every field of the event whose key is no path of the  *)
(* entry list as it was; the keys of the output are a superset of the keys *)
(* of the input, and every new key is a path of the entry list.            *)
C4_UnrelatedFieldsKept ==
    Called =>
        /\ \A k \in DOMAIN input :
              k \notin Keys(built) => EventHas(Output, k) /\ Output[k] = input[k]
        /\ DOMAIN input \subseteq DOMAIN Output
        /\ DOMAIN Output \subseteq (DOMAIN input) \cup Keys(built)

(* A call wrote some path and the event had a field that is no path.       *)
C4_Witness ==
    /\ Called
    /\ \E k \in DOMAIN input : k \notin Keys(built) /\ Output[k] = input[k]
    /\ \E k \in DOMAIN input : k \in Keys(built) /\ Output[k] # input[k]
    /\ \E k \in DOMAIN Output : k \notin DOMAIN input

(* C10: after any sequence of calls the entry list of the stage is the     *)
(* list built at construction, and the event returned for an event is the  *)
(* same whatever calls came before.                                        *)
C10_StatelessAcrossCalls ==
    stage = "ready" =>
        /\ fields = built
        /\ \A c1, c2 \in memo : c1[1] = c2[1] => c1[2] = c2[2]
        /\ Called => <<input, result>> \in memo

(* The same event passed twice, with a template failing to render in it.   *)
C10_Witness ==
    /\ stage = "ready"
    /\ nIn = 2
    /\ Cardinality(memo) = 1
    /\ SomeRenderFails(built, input)
    /\ Output # input

----------------------------------------------------------------------------
(* C5: when a string leaf of the configuration holds malformed template    *)
(* syntax, construction fails: the builder yields no usable stage, and no  *)
(* event is processed by a stage that holds an uncompilable template.      *)
C5_MalformedTemplateFailsBuild ==
    HasMalformedLeaf(DeclaredLeaves(config)) => (stage # "ready" /\ nIn = 0)

(* C6: flattening turns every string leaf into a Template entry of that    *)
(* text, placeholder or not, and every integer, float or boolean leaf into *)
(* a Literal entry of that type and value; a call inserts the literal      *)
(* unchanged at its path, so the event of the test holds 4.5 as a float,   *)
(* 4 as an integer and true as a boolean.                                  *)
C6_LeafTypesPreserved ==
    stage = "ready" =>
        LET leaves == DeclaredLeaves(config)
        IN /\ \A i \in 1..Len(leaves) :
                 (\A j \in 1..Len(leaves) : j # i => leaves[j].path # leaves[i].path)
                    => \E n \in 1..Len(built) :
                          /\ built[n].key = leaves[i].path
                          /\ PayloadOfLeaf(built[n].payload, leaves[i].leaf)
           /\ \A n \in 1..Len(built) :
                 \E i \in 1..Len(leaves) :
                    /\ built[n].key = leaves[i].path
                    /\ PayloadOfLeaf(built[n].payload, leaves[i].leaf)
           /\ Called =>
                 \A n \in 1..Len(built) :
                    built[n].payload.kind = "Value" =>
                       /\ EventHas(Output, built[n].key)
                       /\ Output[built[n].key] = built[n].payload.val
           /\ (Called /\ config = DocTypes) =>
                 /\ Output["float"] = VFloat(45)
                 /\ Output["int"] = VInteger(4)
                 /\ Output["bool"] = VBoolean(TRUE)
                 /\ Output["string"] = VBytes("thisisastring")

(* The document of the test add_fields_preserves_types was applied.        *)
C6_Witness ==
    /\ Called
    /\ config = DocTypes
    /\ Output["float"].t = "Float"
    /\ Output["int"].t = "Integer"
    /\ Output["bool"].t = "Boolean"
    /\ built[3] = Entry("string", PTemplate(TemplateFrom(<<"thisisastring">>)))

(* C7: every leaf is mapped to one entry whose path is the accumulated     *)
(* key, P[i] for element i of an array at P, in index order, and P.k for   *)
(* member k of a table at P, to any depth; arrays and tables give no entry *)
(* of their own, and the entries stand in the order in which the leaves    *)
(* are visited. {a: [1, 2, 3]} gives exactly a[0], a[1], a[2] with 1, 2,   *)
(* 3, and {a: {b: "c"}} gives exactly a.b.                                 *)
C7_EveryLeafOnePath ==
    stage = "ready" =>
        LET leaves == DeclaredLeaves(config)
        IN /\ Keys(built) = PathSet(leaves)
           /\ Len(built) = Cardinality(PathSet(leaves))
           /\ NoCollision(config) => KeySeq(built) = PathSeq(VisitedLeaves(config))
           /\ config = DocArray =>
                 built = << Entry("a[0]", PValue(VInteger(1))),
                            Entry("a[1]", PValue(VInteger(2))),
                            Entry("a[2]", PValue(VInteger(3))) >>
           /\ config = DocTable =>
                 built = << Entry("a.b", PTemplate(TemplateFrom(<<"c">>))) >>
           /\ config = DocDeep => KeySeq(built) = <<"a.b[0]", "a.b[1]", "a.b[2].c">>

(* A document that nests a table in an array in a table was flattened.     *)
C7_Witness ==
    /\ stage = "ready"
    /\ config = DocDeep
    /\ Len(built) = 3
    /\ built[3].key = "a.b[2].c"

(* C8: the members of every table, the top-level map and the nested tables *)
(* alike, are flattened in the order of their declaration, so the entry    *)
(* list follows the order in which the keys were declared: t = {z = "x",   *)
(* a = "{{t.z}}"} gives the entries t.z, t.a in that order.                *)
C8_DeclarationOrder ==
    (stage = "ready" /\ NoCollision(config)) =>
        KeySeq(built) = PathSeq(DeclaredLeaves(config))

(* C9: when two leaves flatten to the same path no error is raised and the *)
(* list has one entry for the path, with the payload of the leaf visited   *)
(* later, at the place of the first leaf that gave the path; the entries   *)
(* between the two are applied after it and see the later payload.         *)
C9_CollisionLastWriteFirstPlace ==
    stage = "ready" =>
        LET visited == VisitedLeaves(config)
            First(p) == CHOOSE i \in 1..Len(visited) :
                           /\ visited[i].path = p
                           /\ \A j \in 1..(i - 1) : visited[j].path # p
            Last(p) == CHOOSE i \in 1..Len(visited) :
                           /\ visited[i].path = p
                           /\ \A j \in (i + 1)..Len(visited) : visited[j].path # p
        IN /\ \A m, n \in 1..Len(built) : m # n => built[m].key # built[n].key
           /\ Keys(built) = PathSet(visited)
           /\ \A n \in 1..Len(built) :
                 PayloadOfLeaf(built[n].payload, visited[Last(built[n].key)].leaf)
           /\ \A m, n \in 1..Len(built) :
                 m < n <=> First(built[m].key) < First(built[n].key)
           /\ config = DocCollision =>
                 /\ built = << Entry("a.b", PValue(VInteger(4))),
                               Entry("c", PTemplate(TemplateFrom(<<Open, "a.b", Close>>))) >>
                 /\ Called => Output["c"] = VBytes("4")

(* The colliding document was built and applied: the entry declared        *)
(* between the two leaves of a.b rendered the payload of the later one.    *)
C9_Witness ==
    /\ Called
    /\ config = DocCollision
    /\ Len(VisitedLeaves(config)) = 3
    /\ Len(built) = 2
    /\ Output["a.b"] = VInteger(4)
    /\ Output["c"] = VBytes("4")

====
